---- MODULE Spec2Model ----
(***************************************************************************)
(* DIY-AI Fix-It: the view-state controller of src/App.tsx, the input form *)
(* that feeds it, the solution view's step list, and the three service     *)
(* functions of src/services/geminiService.ts.                             *)
(*                                                                         *)
(* Text is modelled as a sequence of tokens (a token is a word, a phrase   *)
(* or one whitespace character), so that concatenation, join, trim and     *)
(* includes are computed rather than assumed.                              *)
(***************************************************************************)
EXTENDS Integers, Sequences, FiniteSets, TLC

\* ------------------------------------------------------------------ bounds
\* form submits that pass validation in one run (each starts a file read)
MaxSubmits == 2
\* largest stepIndex a direct call of handleCheckWork is tried with
MaxStepIndex == 4
\* direct calls of the service functions in one run
MaxServiceCalls == 2
\* part finder submits that pass validation in one run
MaxIdentifies == 2
\* chat messages sent in one run
MaxSends == 2
\* microphone sessions started in one run
MaxListens == 2
\* submits, part finder submits and chat sends, together, in one run
MaxRequests == 3

\* ------------------------------------------------------------ text helpers
\* JavaScript null, in a state hook that holds an object
null == [isNull |-> TRUE]
\* JavaScript null, in a state hook that holds text (no text has this token)
nullText == <<"(null)">>

\* String.prototype.includes
Includes(s, needle) ==
    \E i \in 0..(Len(s) - Len(needle)) : SubSeq(s, i + 1, i + Len(needle)) = needle

IsSpace(tok) == tok \in {" ", "\n"}

RECURSIVE TrimStart(_)
TrimStart(s) ==
    IF s # <<>> /\ IsSpace(Head(s)) THEN TrimStart(Tail(s)) ELSE s

RECURSIVE TrimEnd(_)
TrimEnd(s) ==
    IF s # <<>> /\ IsSpace(s[Len(s)]) THEN TrimEnd(SubSeq(s, 1, Len(s) - 1)) ELSE s

\* String.prototype.trim
Trim(s) == TrimEnd(TrimStart(s))

\* Array.prototype.join
RECURSIVE Join(_, _)
Join(list, sep) ==
    IF list = <<>> THEN <<>>
    ELSE IF Len(list) = 1 THEN list[1]
    ELSE list[1] \o sep \o Join(Tail(list), sep)

\* String.prototype.toLowerCase, on the tokens whose case matters
ToLowerCase(tok) ==
    IF tok \in {"Safety First:", "SAFETY FIRST:", "safety first:"}
    THEN "safety first:" ELSE tok

\* `${template}`.replace(pattern, replacement): first occurrence only
RECURSIVE Replace(_, _, _)
Replace(s, pat, rep) ==
    IF s = <<>> THEN <<>>
    ELSE IF Head(s) = pat THEN rep \o Tail(s)
    ELSE <<Head(s)>> \o Replace(Tail(s), pat, rep)

\* JavaScript truthiness of an optional string field
TruthyString(obj, f) == f \in DOMAIN obj /\ obj[f] # <<>>
\* JavaScript truthiness of an optional array field ([] is truthy)
TruthyArray(obj, f) == f \in DOMAIN obj

\* --------------------------------------------------------- service: data
SYSTEM_INSTRUCTION_PHOTO ==
    <<"You are an expert DIY assistant", "The user is located in **", "{locale}",
      "**. Your suggestions", "If the location is 'Generic/Global'", "valid JSON">>

SYSTEM_INSTRUCTION_VIDEO ==
    <<"You are a master repair technician", "The user is located in **", "{locale}",
      "**. Your suggestions", "If the location is 'Generic/Global'", "valid JSON">>

MOCK_SOLUTION ==
    [risk |-> "Low",
     diagnosis |-> <<"This is a sample diagnosis for a leaky faucet.">>,
     tools |-> << <<"Adjustable wrench">>, <<"Phillips head screwdriver">>,
                  <<"Replacement O-ring kit">>, <<"Rag">> >>,
     instructions |-> << <<"Safety First:", " ", "Turn off the water supply valves">>,
                         <<"Use the adjustable wrench">>,
                         <<"Lift the handle off">>,
                         <<"Unscrew the cap">>,
                         <<"Carefully pull out the faucet cartridge">>,
                         <<"Locate and replace the old O-rings">>,
                         <<"Reassemble the faucet">>,
                         <<"Turn the water supply back on">> >>,
     difficulty |-> <<"Beginner">>,
     estimatedTime |-> <<"30-45 minutes">>,
     potentialPitfalls |-> << <<"Forgetting to turn off the water supply.">>,
                              <<"Using the wrong size replacement O-rings.">>,
                              <<"Scratching the faucet finish with tools.">> >>]

MOCK_PART ==
    [partName |-> <<"Moen 1225 Single-Handle Faucet Cartridge">>,
     modelNumber |-> <<"1225 / 1225B">>,
     description |-> <<"A common replacement cartridge">>,
     purchaseLocations |-> << <<"Home Depot">>, <<"Lowe's">>, <<"Amazon">>,
                              <<"Local plumbing supply stores">> >>,
     installationVideo |-> <<"https://www.youtube.com/watch?v=kC9_W_x_5_c">>]

MOCK_VERIFICATION ==
    [isCorrect |-> TRUE, feedback |-> <<"Looks great!">>]

\* the four values of the Locale type
Locale == {<<"Generic/Global">>, <<"USA">>, <<"UK">>, <<"Australia">>}

\* the names of the three exported request functions
ServiceFn == {"getFixItSolution", "identifyPart", "verifyStep"}

\* The JSON objects the AI service can answer a solution request with.  The
\* response schema requires only "risk"; every other key is optional, so the
\* service may leave keys out or add keys the prompt forbids.
AiSolutions ==
    { [risk |-> "High", safetyWarning |-> <<"Working with gas lines can be fatal.">>],
      [risk |-> "High", safetyWarning |-> <<"Stop.">>,
       diagnosis |-> <<"The breaker is burnt.">>,
       tools |-> << <<"Pliers">> >>,
       instructions |-> << <<"Open the panel">>, <<"Swap the breaker">> >>],
      [risk |-> "Low",
       diagnosis |-> <<"The washer is worn.">>,
       tools |-> << <<"Spanner">> >>,
       instructions |-> << <<"Close the valve">>, <<"Replace the washer">>,
                           <<"Open the valve">> >>,
       difficulty |-> <<"Beginner">>, estimatedTime |-> <<"15 minutes">>,
       potentialPitfalls |-> << >>],
      [risk |-> "Medium",
       diagnosis |-> <<"The fan blade is loose.">>,
       tools |-> << >>,
       instructions |-> << <<"Tighten the screws">>,
                           <<"safety first:", " ", "Switch the power off">> >>,
       difficulty |-> <<"Intermediate">>, estimatedTime |-> <<"1 hour">>,
       potentialPitfalls |-> << <<"Overtightening.">> >>],
      [risk |-> "Medium",
       diagnosis |-> <<"The hinge is bent.">>,
       instructions |-> << <<"Bend it back">> >>],
      [risk |-> "Low", diagnosis |-> <<"Nothing is wrong.">>],
      [risk |-> "Low", diagnosis |-> << >>,
       instructions |-> << <<"Wipe the surface">> >>],
      [risk |-> "Medium", diagnosis |-> <<"The seal leaks.">>,
       instructions |-> << >>] }

AiParts ==
    { [partName |-> <<"Flapper valve">>, modelNumber |-> << >>,
       description |-> <<"Seals the tank">>, purchaseLocations |-> << >>,
       installationVideo |-> << >>] }

AiVerifications ==
    { [isCorrect |-> FALSE, feedback |-> <<"It still looks loose.">>] }

\* the payloads the AI service can answer each request function with
AiPayloads(fn) ==
    CASE fn = "getFixItSolution" -> AiSolutions
      [] fn = "identifyPart" -> AiParts
      [] fn = "verifyStep" -> AiVerifications

\* the message texts of the Error objects a failing call is seen to throw:
\* the SDK's rejection of the credential, other service or network errors,
\* a JSON.parse failure on the answer, and an Error without a message
ErrorMessages ==
    { <<"API key not valid">>,
      <<"[400] ", "API key not valid", ". Please pass a valid API key.">>,
      <<"API key expired">>,
      <<"quota exceeded">>,
      <<"Unexpected token", " ", "in JSON">>,
      << >> }

\* the MIME types of the files the form and the part finder pass on
MimeTypes == {<<"image/", "png">>, <<"video/", "mp4">>}

\* how one call of ai.models.generateContent (with the parse of its answer)
\* can end: a parsed payload, a thrown Error, or a thrown non-Error value
AiOutcomes(fn) ==
    { [kind |-> "ok", value |-> v] : v \in AiPayloads(fn) }
      \cup { [kind |-> "error", message |-> m] : m \in ErrorMessages }
      \cup { [kind |-> "thrown"] }

\* ---------------------------------------------------- service: functions
\* a promise's settlement
Resolved(v) == [status |-> "resolved", value |-> v]
\* a rejection with new Error(message)
Rejected(m) == [status |-> "rejected", message |-> m]

INVALID_KEY_MESSAGE ==
    <<"Your API key is not valid. Please check it in your environment variables.">>

\* String.prototype.startsWith('video/')
StartsWithVideo(mimeType) == mimeType # <<>> /\ Head(mimeType) = "video/"

\* getFixItSolution without its test of the credential
getFixItSolutionRequest_NoKeyTest(hasKey, mimeType, locale) ==
    [via |-> "generateContent",
     mimeType |-> mimeType,
     systemInstruction |->
         Replace(IF StartsWithVideo(mimeType)
                 THEN SYSTEM_INSTRUCTION_VIDEO
                 ELSE SYSTEM_INSTRUCTION_PHOTO,
                 "{locale}", locale)]

\* getFixItSolution using the photo template whatever the file is
getFixItSolutionRequest_PhotoTemplate(hasKey, mimeType, locale) ==
    IF ~hasKey
    THEN [via |-> "setTimeout"]
    ELSE [via |-> "generateContent",
          mimeType |-> mimeType,
          systemInstruction |->
              Replace(SYSTEM_INSTRUCTION_PHOTO, "{locale}", locale)]

\* getFixItSolution up to its await: without a credential a timer is armed
\* and nothing is sent; with one, the request is built and sent
getFixItSolutionRequest(hasKey, mimeType, locale) ==
    IF ~hasKey
    THEN [via |-> "setTimeout"]
    ELSE [via |-> "generateContent",
          mimeType |-> mimeType,
          systemInstruction |->
              Replace(IF StartsWithVideo(mimeType)
                      THEN SYSTEM_INSTRUCTION_VIDEO
                      ELSE SYSTEM_INSTRUCTION_PHOTO,
                      "{locale}", locale)]

\* getFixItSolution from its await on: the settlement of the promise it returned
getFixItSolution(request, outcome) ==
    IF request.via = "setTimeout" THEN Resolved(MOCK_SOLUTION)
    ELSE IF outcome.kind = "ok" THEN Resolved(outcome.value)
    ELSE IF outcome.kind = "error"
    THEN IF Includes(outcome.message, <<"API key not valid">>)
         THEN Rejected(INVALID_KEY_MESSAGE)
         ELSE Rejected(<<"Failed to get solution: ">> \o outcome.message)
    ELSE Rejected(<<"An unknown error occurred while fetching the solution.">>)

identifyPartRequest(hasKey, mimeType) ==
    IF ~hasKey
    THEN [via |-> "setTimeout"]
    ELSE [via |-> "generateContent",
          mimeType |-> mimeType,
          systemInstruction |-> <<"You are an expert hardware and parts identifier.">>]

identifyPart(request, outcome) ==
    IF request.via = "setTimeout" THEN Resolved(MOCK_PART)
    ELSE IF outcome.kind = "ok" THEN Resolved(outcome.value)
    ELSE IF outcome.kind = "error"
    THEN IF Includes(outcome.message, <<"API key not valid">>)
         THEN Rejected(INVALID_KEY_MESSAGE)
         ELSE Rejected(<<"Failed to identify part: ">> \o outcome.message)
    ELSE Rejected(<<"An unknown error occurred while identifying the part.">>)

verifyStepRequest(hasKey, mimeType) ==
    IF ~hasKey
    THEN [via |-> "setTimeout"]
    ELSE [via |-> "generateContent",
          mimeType |-> mimeType,
          systemInstruction |-> <<"You are a DIY supervisor.">>]

\* verifyStep's catch block without the test for the invalid-key text
verifyStep_NoKeyText(request, outcome) ==
    IF request.via = "setTimeout" THEN Resolved(MOCK_VERIFICATION)
    ELSE IF outcome.kind = "ok" THEN Resolved(outcome.value)
    ELSE IF outcome.kind = "error"
    THEN Rejected(<<"Failed to verify step: ">> \o outcome.message)
    ELSE Rejected(<<"An unknown error occurred while verifying the step.">>)

verifyStep(request, outcome) ==
    IF request.via = "setTimeout" THEN Resolved(MOCK_VERIFICATION)
    ELSE IF outcome.kind = "ok" THEN Resolved(outcome.value)
    ELSE IF outcome.kind = "error"
    THEN IF Includes(outcome.message, <<"API key not valid">>)
         THEN Rejected(INVALID_KEY_MESSAGE)
         ELSE Rejected(<<"Failed to verify step: ">> \o outcome.message)
    ELSE Rejected(<<"An unknown error occurred while verifying the step.">>)

\* startChatSession without its test for the credential
startChatSession_NoKeyTest(hasKey, initialContext) ==
    [systemInstruction |->
        <<"You are a helpful DIY assistant.", "\n",
          "Here is the context of the original problem and the solution you provided:",
          "\n">>
        \o initialContext
        \o <<"\n", "Now, continue the conversation">>]

\* startChatSession: null without a credential, else the chat object, kept as
\* the system instruction it was created with
startChatSession(hasKey, initialContext) ==
    IF ~hasKey THEN null
    ELSE [systemInstruction |->
              <<"You are a helpful DIY assistant.", "\n",
                "Here is the context of the original problem and the solution you provided:",
                "\n">>
              \o initialContext
              \o <<"\n", "Now, continue the conversation">>]

\* the voice-input form (the InputForm with a microphone button) before any
\* input: its hooks, whether its recognizer is running, the microphone
\* sessions started, the description a file read in progress will hand to
\* onSubmit (with the hooks as handleSubmit found them), and the description
\* onSubmit was last called with
VoiceInit ==
    [imageFile |-> FALSE, problemDescription |-> << >>, error |-> nullText,
     isListening |-> FALSE, transcript |-> << >>, recognizing |-> FALSE,
     listens |-> 0, reading |-> nullText,
     readingFrom |-> [problemDescription |-> << >>, transcript |-> << >>,
                      isListening |-> FALSE],
     submitted |-> nullText]

\* ------------------------------------------------------------- app: state
VARIABLES
    apiKey,               \* process.env.API_KEY is set (fixed by the build)
    appState,             \* 'idle' | 'loading' | 'error' | 'solution'
    solution,             \* Solution | null
    chat,                 \* Chat | null
    error,                \* string | null
    currentStepProgress,  \* number
    formError,            \* InputForm's error of the mounted form, string | null
    tasks,                \* the accepted submits: each one's position in
                          \* InputForm.handleSubmit / handleGetSolution
    aiCalls,              \* calls of ai.models.generateContent issued so far
    lastOp,               \* the handler or continuation that ran last
    svc,                  \* a service function called directly: its call
    svcCount,             \* direct service calls made so far
    modalState,           \* 'none' | 'partFinder'
    isPartFinderLoading,  \* boolean
    partFinderError,      \* string | null
    partFinderResult,     \* PartIdentification | null
    partFormError,        \* PartFinderInput's error of the mounted form
    partTasks,            \* the accepted part finder submits: each one's
                          \* position in handleSubmit / handleIdentifyPart
    messages,             \* ChatComponent's messages, of the mounted component
    isSending,            \* ChatComponent's isSending
    streams,              \* the chat sends: each one's position in
                          \* ChatComponent.handleSendMessage
    voice                 \* the voice-input form: its hooks and its recognizer

finderVars == <<modalState, isPartFinderLoading, partFinderError,
                partFinderResult, partFormError, partTasks>>

chatVars == <<messages, isSending, streams>>

vars == <<apiKey, appState, solution, chat, error, currentStepProgress,
          formError, tasks, aiCalls, lastOp, svc, svcCount, finderVars,
          chatVars, voice>>

appVars == <<appState, solution, chat, error, currentStepProgress>>

PartTaskIds == 1..MaxIdentifies

StreamIds == 1..MaxSends

TaskIds == 1..MaxSubmits

\* the descriptions typed into the form: empty, blank, and a real one
Descriptions == {<< >>, <<" ">>, <<"leaking", " ", "sink">>}

\* the form's file: none selected, or a File with its type
Files == {null} \cup { [type |-> m] : m \in MimeTypes }

Init ==
    /\ apiKey \in BOOLEAN
    /\ appState = "idle"
    /\ solution = null
    /\ chat = null
    /\ error = nullText
    /\ currentStepProgress = 0
    /\ formError = nullText
    /\ tasks = [i \in TaskIds |-> [status |-> "unused"]]
    /\ aiCalls = 0
    /\ lastOp = [op |-> "init"]
    /\ svc = null
    /\ svcCount = 0
    /\ modalState = "none"
    /\ isPartFinderLoading = FALSE
    /\ partFinderError = nullText
    /\ partFinderResult = null
    /\ partFormError = nullText
    /\ partTasks = [i \in PartTaskIds |-> [status |-> "unused"]]
    /\ messages = << >>
    /\ isSending = FALSE
    /\ streams = [i \in StreamIds |-> [status |-> "unused"]]
    /\ voice = VoiceInit

\* --------------------------------------------------------------- app: view
\* the button rendered for the completed steps as well as the active one
CheckWorkButtons_CompletedToo(sol, currentStepIndex) ==
    { index \in 0..(Len(sol.instructions) - 1) :
        /\ index <= currentStepIndex
        /\ ToLowerCase(Head(sol.instructions[index + 1])) # "safety first:" }

\* the step indexes SolutionDisplay renders a 'Check My Work' button for
CheckWorkButtons(sol, currentStepIndex) ==
    { index \in 0..(Len(sol.instructions) - 1) :
        /\ index = currentStepIndex
        /\ ToLowerCase(Head(sol.instructions[index + 1])) # "safety first:" }

\* what SolutionDisplay renders for a solution
SolutionDisplay(sol, chatProp, currentStepIndex) ==
    IF ~TruthyString(sol, "diagnosis") \/ ~TruthyArray(sol, "instructions")
    THEN [view |-> "CouldNotDisplay", stepList |-> FALSE, toolList |-> FALSE,
          chatView |-> FALSE, text |-> << >>, checkWork |-> {}]
    ELSE [view |-> "SolutionDisplay", stepList |-> TRUE, toolList |-> TRUE,
          chatView |-> chatProp # null, text |-> sol.diagnosis,
          checkWork |-> CheckWorkButtons(sol, currentStepIndex)]

\* what App.renderContent renders in the current state
renderContent ==
    CASE appState = "loading" ->
            [view |-> "LoadingSpinner", stepList |-> FALSE, toolList |-> FALSE,
             chatView |-> FALSE, text |-> << >>, checkWork |-> {}]
      [] appState = "error" ->
            [view |-> "ErrorAlert", stepList |-> FALSE, toolList |-> FALSE,
             chatView |-> FALSE, text |-> error, checkWork |-> {}]
      [] appState = "solution" ->
            IF solution # null
            THEN IF solution.risk = "High"
                 THEN [view |-> "HighRiskWarning", stepList |-> FALSE,
                       toolList |-> FALSE, chatView |-> FALSE,
                       text |-> IF "safetyWarning" \in DOMAIN solution
                                THEN solution.safetyWarning ELSE << >>,
                       checkWork |-> {}]
                 ELSE SolutionDisplay(solution, chat, currentStepProgress)
            ELSE [view |-> "nothing", stepList |-> FALSE, toolList |-> FALSE,
                  chatView |-> FALSE, text |-> << >>, checkWork |-> {}]
      [] OTHER ->
            [view |-> "InputForm", stepList |-> FALSE, toolList |-> FALSE,
             chatView |-> FALSE, text |-> << >>, checkWork |-> {}]

\* the header's 'Start New Fix' button and the error view's 'Try Again'
ResetOffered == appState \in {"solution", "error"}

\* a stream whose ChatComponent has left the screen: its updates are dropped
Orphaned(ss) ==
    [i \in DOMAIN ss |->
        IF ss[i].status \in {"sending", "streaming"}
        THEN [ss[i] EXCEPT !.mounted = FALSE] ELSE ss[i]]

\* React keeps the ChatComponent and its hooks while the follow-up chat view
\* stays rendered across the step, and drops them when it is not rendered
ChatComponentFollows ==
    IF renderContent.chatView /\ renderContent'.chatView
    THEN UNCHANGED chatVars
    ELSE /\ messages' = << >>
         /\ isSending' = FALSE
         /\ streams' = Orphaned(streams)

\* ------------------------------------------------------------ app: actions
\* the InputForm leaves the screen: its state is dropped, and a file read it
\* still waits for will report to a form that is gone
Unmounted(ts) ==
    [i \in DOMAIN ts |->
        IF ts[i].status = "reading" THEN [ts[i] EXCEPT !.mounted = FALSE] ELSE ts[i]]

FreeIds == { i \in TaskIds : tasks[i].status = "unused" }

\* the submits, part finder submits and chat sends accepted so far
RequestsStarted ==
    Cardinality({ i \in TaskIds : tasks[i].status # "unused" })
      + Cardinality({ i \in PartTaskIds : partTasks[i].status # "unused" })
      + Cardinality({ i \in StreamIds : streams[i].status # "unused" })


\* handleSubmit testing the description without trimming it
handleSubmit_TestsUntrimmed(file, description, uploadMode) ==
    /\ appState = "idle"
    /\ IF file = null
       THEN /\ formError' = <<"Please upload a ", uploadMode, " of the problem.">>
            /\ tasks' = tasks
            /\ lastOp' = [op |-> "handleSubmit", file |-> file,
                          description |-> description, reading |-> FALSE]
       ELSE IF description = << >>
       THEN /\ formError' = <<"Please describe the problem.">>
            /\ tasks' = tasks
            /\ lastOp' = [op |-> "handleSubmit", file |-> file,
                          description |-> description, reading |-> FALSE]
       ELSE /\ FreeIds # {}
            /\ RequestsStarted < MaxRequests
            /\ LET id == CHOOSE i \in FreeIds : \A j \in FreeIds : i <= j
               IN tasks' = [tasks EXCEPT ![id] =
                               [status |-> "reading", mimeType |-> file.type,
                                description |-> description, mounted |-> TRUE,
                                fetchCalls |-> 0]]
            /\ formError' = nullText
            /\ lastOp' = [op |-> "handleSubmit", file |-> file,
                          description |-> description, reading |-> TRUE]
    /\ UNCHANGED <<apiKey, appVars, aiCalls, svc, svcCount, finderVars, chatVars, voice>>

\* InputForm.handleSubmit up to `await fileToBase64(file)`
handleSubmit(file, description, uploadMode) ==
    /\ appState = "idle"
    /\ IF file = null
       THEN /\ formError' = <<"Please upload a ", uploadMode, " of the problem.">>
            /\ tasks' = tasks
            /\ lastOp' = [op |-> "handleSubmit", file |-> file,
                          description |-> description, reading |-> FALSE]
       ELSE IF Trim(description) = << >>
       THEN /\ formError' = <<"Please describe the problem.">>
            /\ tasks' = tasks
            /\ lastOp' = [op |-> "handleSubmit", file |-> file,
                          description |-> description, reading |-> FALSE]
       ELSE /\ FreeIds # {}
            /\ RequestsStarted < MaxRequests
            /\ LET id == CHOOSE i \in FreeIds : \A j \in FreeIds : i <= j
               IN tasks' = [tasks EXCEPT ![id] =
                               [status |-> "reading", mimeType |-> file.type,
                                description |-> description, mounted |-> TRUE,
                                fetchCalls |-> 0]]
            /\ formError' = nullText
            /\ lastOp' = [op |-> "handleSubmit", file |-> file,
                          description |-> description, reading |-> TRUE]
    /\ UNCHANGED <<apiKey, appVars, aiCalls, svc, svcCount, finderVars, chatVars, voice>>

\* the locale the request is made with (the selector's initial value)
DefaultLocale == <<"Generic/Global">>

\* handleGetSolution without setAppState('loading')
handleGetSolution_NoLoading(id) ==
    /\ tasks[id].status = "reading"
    /\ appState' = appState
    /\ error' = nullText
    /\ solution' = null
    /\ chat' = null
    /\ currentStepProgress' = 0
    /\ LET request == getFixItSolutionRequest(apiKey, tasks[id].mimeType, <<"Generic/Global">>)
       IN /\ tasks' = [tasks EXCEPT ![id] =
                          [status |-> "fetching", request |-> request,
                           description |-> tasks[id].description,
                           fetchCalls |-> tasks[id].fetchCalls + 1]]
          /\ aiCalls' = aiCalls + (IF request.via = "generateContent" THEN 1 ELSE 0)
    /\ formError' = formError
    /\ lastOp' = [op |-> "handleGetSolution", id |-> id]
    /\ UNCHANGED <<apiKey, svc, svcCount, finderVars, voice>>
    /\ ChatComponentFollows

\* fileToBase64 resolves: InputForm.handleSubmit calls onSubmit, which is
\* handleGetSolution up to `await getFixItSolution(...)`
handleGetSolution(id) ==
    /\ tasks[id].status = "reading"
    /\ appState' = "loading"
    /\ error' = nullText
    /\ solution' = null
    /\ chat' = null
    /\ currentStepProgress' = 0
    /\ LET request == getFixItSolutionRequest(apiKey, tasks[id].mimeType, DefaultLocale)
       IN /\ tasks' = [Unmounted(tasks) EXCEPT ![id] =
                          [status |-> "fetching", request |-> request,
                           description |-> tasks[id].description,
                           fetchCalls |-> tasks[id].fetchCalls + 1]]
          /\ aiCalls' = aiCalls + (IF request.via = "generateContent" THEN 1 ELSE 0)
    /\ formError' = nullText
    /\ lastOp' = [op |-> "handleGetSolution", id |-> id]
    /\ UNCHANGED <<apiKey, svc, svcCount, finderVars, voice>>
    /\ ChatComponentFollows

\* fileToBase64 rejects: the catch of InputForm.handleSubmit
fileReadFails(id) ==
    /\ tasks[id].status = "reading"
    /\ formError' = IF tasks[id].mounted
                    THEN <<"Could not process the file.">> ELSE formError
    /\ tasks' = [tasks EXCEPT ![id] =
                    [status |-> "unreadable", fetchCalls |-> tasks[id].fetchCalls]]
    /\ lastOp' = [op |-> "fileReadFails", id |-> id]
    /\ UNCHANGED <<apiKey, appVars, aiCalls, svc, svcCount, finderVars, chatVars, voice>>

\* how the call a request made can end
OutcomesOf(fn, request) ==
    IF request.via = "setTimeout" THEN {[kind |-> "timer"]} ELSE AiOutcomes(fn)

\* the context with the instructions joined by ", " instead of a newline
ChatContext_CommaJoined(problemDescription, result) ==
    <<"Problem: ">> \o problemDescription
      \o <<"\n", "Solution Provided:", "\n", "- Diagnosis: ">> \o result.diagnosis
      \o <<"\n", "- Instructions: ">> \o Join(result.instructions, <<", ">>)

\* the context string handleGetSolution builds for the chat session
ChatContext(problemDescription, result) ==
    <<"Problem: ">> \o problemDescription
      \o <<"\n", "Solution Provided:", "\n", "- Diagnosis: ">> \o result.diagnosis
      \o <<"\n", "- Instructions: ">> \o Join(result.instructions, <<"\n">>)

\* the test without its risk condition
ChatWanted_IgnoresRisk(result) ==
    /\ TruthyString(result, "diagnosis")
    /\ TruthyArray(result, "instructions")

\* handleGetSolution's test for starting a chat session
ChatWanted(result) ==
    /\ result.risk # "High"
    /\ TruthyString(result, "diagnosis")
    /\ TruthyArray(result, "instructions")

\* handleGetSolution after its await, the promise resolved
getSolutionResolved(id) ==
    /\ tasks[id].status = "fetching"
    /\ \E outcome \in OutcomesOf("getFixItSolution", tasks[id].request) :
         LET settled == getFixItSolution(tasks[id].request, outcome)
             result == settled.value
         IN /\ settled.status = "resolved"
            /\ solution' = result
            /\ appState' = "solution"
            /\ chat' = IF ChatWanted(result)
                       THEN startChatSession(apiKey,
                                ChatContext(tasks[id].description, result))
                       ELSE chat
            /\ lastOp' = [op |-> "getSolutionResolved", id |-> id,
                          result |-> result,
                          description |-> tasks[id].description,
                          startedChat |-> ChatWanted(result)]
    /\ tasks' = [Unmounted(tasks) EXCEPT ![id] =
                    [status |-> "settled", fetchCalls |-> tasks[id].fetchCalls]]
    /\ formError' = nullText
    /\ UNCHANGED <<apiKey, error, currentStepProgress, aiCalls, svc, svcCount,
                   finderVars, voice>>
    /\ ChatComponentFollows

\* the catch block calling getFixItSolution again instead of giving up
getSolutionRejected_Retries(id) ==
    /\ tasks[id].status = "fetching"
    /\ tasks[id].fetchCalls < 3
    /\ \E outcome \in OutcomesOf("getFixItSolution", tasks[id].request) :
         LET settled == getFixItSolution(tasks[id].request, outcome)
         IN /\ settled.status = "rejected"
            /\ lastOp' = [op |-> "getSolutionRejected", id |-> id,
                          message |-> settled.message]
    /\ tasks' = [tasks EXCEPT ![id].fetchCalls = @ + 1]
    /\ aiCalls' = aiCalls + 1
    /\ UNCHANGED <<apiKey, appVars, formError, svc, svcCount, finderVars,
                   chatVars, voice>>

\* handleGetSolution after its await, the promise rejected: the catch block
getSolutionRejected(id) ==
    /\ tasks[id].status = "fetching"
    /\ \E outcome \in OutcomesOf("getFixItSolution", tasks[id].request) :
         LET settled == getFixItSolution(tasks[id].request, outcome)
         IN /\ settled.status = "rejected"
            /\ error' = IF settled.message # << >> THEN settled.message
                        ELSE <<"An unexpected error occurred.">>
            /\ appState' = "error"
            /\ lastOp' = [op |-> "getSolutionRejected", id |-> id,
                          message |-> settled.message]
    /\ tasks' = [Unmounted(tasks) EXCEPT ![id] =
                    [status |-> "settled", fetchCalls |-> tasks[id].fetchCalls]]
    /\ formError' = nullText
    /\ UNCHANGED <<apiKey, solution, chat, currentStepProgress, aiCalls, svc,
                   svcCount, finderVars, voice>>
    /\ ChatComponentFollows

\* handleCheckWork without the test of stepIndex against the instruction count
handleCheckWork_NoBound(stepIndex) ==
    /\ currentStepProgress' =
          IF /\ solution # null
             /\ TruthyArray(solution, "instructions")
          THEN stepIndex + 1
          ELSE currentStepProgress
    /\ lastOp' = [op |-> "handleCheckWork", stepIndex |-> stepIndex,
                  before |-> currentStepProgress]
    /\ UNCHANGED <<apiKey, appState, solution, chat, error, formError, tasks,
                   aiCalls, svc, svcCount, finderVars, chatVars, voice>>

\* App.handleCheckWork
handleCheckWork(stepIndex) ==
    /\ currentStepProgress' =
          IF /\ solution # null
             /\ TruthyArray(solution, "instructions")
             /\ stepIndex < Len(solution.instructions)
          THEN stepIndex + 1
          ELSE currentStepProgress
    /\ lastOp' = [op |-> "handleCheckWork", stepIndex |-> stepIndex,
                  before |-> currentStepProgress]
    /\ UNCHANGED <<apiKey, appState, solution, chat, error, formError, tasks,
                   aiCalls, svc, svcCount, finderVars, chatVars, voice>>

\* a click on the 'Check My Work' button of the step list
clickCheckMyWork ==
    \E index \in renderContent.checkWork : handleCheckWork(index)

\* handleReset without setCurrentStepProgress(0)
handleReset_KeepsProgress ==
    /\ ResetOffered
    /\ appState' = "idle"
    /\ solution' = null
    /\ error' = nullText
    /\ chat' = null
    /\ currentStepProgress' = currentStepProgress
    /\ formError' = nullText
    /\ lastOp' = [op |-> "handleReset",
                  before |-> [appState |-> appState,
                              solution |-> solution # null,
                              error |-> error # nullText,
                              chat |-> chat # null,
                              progress |-> currentStepProgress > 0]]
    /\ UNCHANGED <<apiKey, tasks, aiCalls, svc, svcCount, finderVars, voice>>
    /\ ChatComponentFollows

\* handleReset calling resetPartFinder as well
handleReset_ResetsPartFinder ==
    /\ ResetOffered
    /\ appState' = "idle"
    /\ solution' = null
    /\ error' = nullText
    /\ chat' = null
    /\ currentStepProgress' = 0
    /\ formError' = nullText
    /\ partFinderResult' = null
    /\ partFinderError' = nullText
    /\ lastOp' = [op |-> "handleReset",
                  before |-> [appState |-> appState,
                              solution |-> solution # null,
                              error |-> error # nullText,
                              chat |-> chat # null,
                              progress |-> currentStepProgress > 0]]
    /\ UNCHANGED <<apiKey, tasks, aiCalls, svc, svcCount, modalState,
                   isPartFinderLoading, partFormError, partTasks, voice>>
    /\ ChatComponentFollows

\* App.handleReset, from either button that offers it
handleReset ==
    /\ ResetOffered
    /\ appState' = "idle"
    /\ solution' = null
    /\ error' = nullText
    /\ chat' = null
    /\ currentStepProgress' = 0
    /\ formError' = nullText
    /\ lastOp' = [op |-> "handleReset",
                  before |-> [appState |-> appState,
                              solution |-> solution # null,
                              error |-> error # nullText,
                              chat |-> chat # null,
                              progress |-> currentStepProgress > 0]]
    /\ UNCHANGED <<apiKey, tasks, aiCalls, svc, svcCount, finderVars, voice>>
    /\ ChatComponentFollows

submitForm ==
    \E file \in Files, description \in Descriptions, uploadMode \in {"photo", "video"} :
        /\ file # null => (uploadMode = "video") = StartsWithVideo(file.type)
        /\ handleSubmit(file, description, uploadMode)

fileRead == \E id \in TaskIds : handleGetSolution(id)

fileReadError == \E id \in TaskIds : fileReadFails(id)

requestResolves == \E id \in TaskIds : getSolutionResolved(id)

requestRejects == \E id \in TaskIds : getSolutionRejected(id)

Next ==
    \/ submitForm
    \/ fileRead
    \/ fileReadError
    \/ requestResolves
    \/ requestRejects
    \/ clickCheckMyWork
    \/ handleReset

Spec == Init /\ [][Next]_vars

\* the scheduling the platform guarantees: a file read ends, a timer fires
\* and a network call settles
FairSpec ==
    /\ Spec
    /\ \A id \in TaskIds :
          /\ WF_vars(handleGetSolution(id) \/ fileReadFails(id))
          /\ WF_vars(getSolutionResolved(id) \/ getSolutionRejected(id))

\* ------------------------------------------------------------ part finder
\* what the PartFinder component renders, with the buttons of that view
PartFinder ==
    IF isPartFinderLoading
    THEN [view |-> "LoadingSpinner", buttons |-> {}]
    ELSE IF partFinderError # nullText /\ partFinderError # << >>
    THEN [view |-> "ErrorAlert", buttons |-> {}]
    ELSE IF partFinderResult # null
    THEN [view |-> "PartFinderResult", buttons |-> {"Find another part"}]
    ELSE [view |-> "PartFinderInput", buttons |-> {"Identify Part"}]

\* what the Modal renders: nothing when closed, else its close button and
\* the part finder
Modal ==
    IF modalState # "partFinder"
    THEN [view |-> "nothing", buttons |-> {}]
    ELSE [view |-> PartFinder.view, buttons |-> {"Close modal"} \cup PartFinder.buttons]

\* the PartFinderInput form is on the screen
PartFinderInputShown == Modal.view = "PartFinderInput"

\* the file reads of a PartFinderInput that has left the screen
PartUnmounted(ts) ==
    [i \in DOMAIN ts |->
        IF ts[i].status = "reading" THEN [ts[i] EXCEPT !.mounted = FALSE] ELSE ts[i]]

\* React keeps the PartFinderInput and its hooks while it stays rendered
\* across the step, and drops them when it is not; ts is partTasks as the
\* handler leaves it
PartFinderInputFollows(ts) ==
    IF PartFinderInputShown /\ PartFinderInputShown'
    THEN /\ partFormError' = partFormError
         /\ partTasks' = ts
    ELSE /\ partFormError' = nullText
         /\ partTasks' = PartUnmounted(ts)

FreePartIds == { i \in PartTaskIds : partTasks[i].status = "unused" }

\* PartFinderInput.handleSubmit up to `await fileToBase64(imageFile)`
PartFinderInput_handleSubmit(imageFile) ==
    /\ PartFinderInputShown
    /\ IF imageFile = null
       THEN /\ partFormError' = <<"Please upload an image of the part.">>
            /\ partTasks' = partTasks
       ELSE /\ FreePartIds # {}
            /\ RequestsStarted < MaxRequests
            /\ LET id == CHOOSE i \in FreePartIds : \A j \in FreePartIds : i <= j
               IN partTasks' = [partTasks EXCEPT ![id] =
                                   [status |-> "reading", mimeType |-> imageFile.type,
                                    mounted |-> TRUE, calls |-> 0]]
            /\ partFormError' = nullText
    /\ lastOp' = [op |-> "PartFinderInput.handleSubmit", reading |-> imageFile # null]
    /\ UNCHANGED <<apiKey, appVars, formError, tasks, aiCalls, svc, svcCount,
                   modalState, isPartFinderLoading, partFinderError,
                   partFinderResult, chatVars, voice>>

\* fileToBase64 rejects: the catch of PartFinderInput.handleSubmit
partFileReadFails(id) ==
    /\ partTasks[id].status = "reading"
    /\ partFormError' = IF partTasks[id].mounted
                        THEN <<"Could not process the image file.">>
                        ELSE partFormError
    /\ partTasks' = [partTasks EXCEPT ![id] =
                        [status |-> "unreadable", calls |-> partTasks[id].calls]]
    /\ lastOp' = [op |-> "partFileReadFails", id |-> id]
    /\ UNCHANGED <<apiKey, appVars, formError, tasks, aiCalls, svc, svcCount,
                   modalState, isPartFinderLoading, partFinderError,
                   partFinderResult, chatVars, voice>>

\* fileToBase64 resolves: PartFinderInput.handleSubmit calls onSubmit, which
\* is handleIdentifyPart up to `await identifyPart(...)`
handleIdentifyPart(id) ==
    /\ partTasks[id].status = "reading"
    /\ isPartFinderLoading' = TRUE
    /\ partFinderError' = nullText
    /\ partFinderResult' = null
    /\ modalState' = modalState
    /\ LET request == identifyPartRequest(apiKey, partTasks[id].mimeType)
       IN /\ aiCalls' = aiCalls + (IF request.via = "generateContent" THEN 1 ELSE 0)
          /\ PartFinderInputFollows(
                 [partTasks EXCEPT ![id] =
                     [status |-> "fetching", request |-> request,
                      calls |-> partTasks[id].calls + 1]])
    /\ lastOp' = [op |-> "handleIdentifyPart", id |-> id]
    /\ UNCHANGED <<apiKey, appVars, formError, tasks, svc, svcCount, chatVars, voice>>

\* handleIdentifyPart after its await, the promise resolved, with its finally
identifyPartResolved(id) ==
    /\ partTasks[id].status = "fetching"
    /\ \E outcome \in OutcomesOf("identifyPart", partTasks[id].request) :
         LET settled == identifyPart(partTasks[id].request, outcome)
         IN /\ settled.status = "resolved"
            /\ partFinderResult' = settled.value
            /\ lastOp' = [op |-> "identifyPartResolved", id |-> id,
                          result |-> settled.value]
    /\ isPartFinderLoading' = FALSE
    /\ UNCHANGED <<partFinderError, modalState>>
    /\ PartFinderInputFollows(
           [partTasks EXCEPT ![id] =
               [status |-> "settled", calls |-> partTasks[id].calls]])
    /\ UNCHANGED <<apiKey, appVars, formError, tasks, aiCalls, svc, svcCount,
                   chatVars, voice>>

\* handleIdentifyPart after its await, the promise rejected: catch and finally
identifyPartRejected(id) ==
    /\ partTasks[id].status = "fetching"
    /\ \E outcome \in OutcomesOf("identifyPart", partTasks[id].request) :
         LET settled == identifyPart(partTasks[id].request, outcome)
         IN /\ settled.status = "rejected"
            /\ partFinderError' = IF settled.message # << >> THEN settled.message
                                  ELSE <<"Failed to identify the part.">>
            /\ lastOp' = [op |-> "identifyPartRejected", id |-> id,
                          message |-> settled.message]
    /\ isPartFinderLoading' = FALSE
    /\ UNCHANGED <<partFinderResult, modalState>>
    /\ PartFinderInputFollows(
           [partTasks EXCEPT ![id] =
               [status |-> "settled", calls |-> partTasks[id].calls]])
    /\ UNCHANGED <<apiKey, appVars, formError, tasks, aiCalls, svc, svcCount,
                   chatVars, voice>>

\* App.resetPartFinder, from the result view's 'Find another part'
resetPartFinder ==
    /\ "Find another part" \in Modal.buttons
    /\ partFinderResult' = null
    /\ partFinderError' = nullText
    /\ UNCHANGED <<modalState, isPartFinderLoading>>
    /\ PartFinderInputFollows(partTasks)
    /\ lastOp' = [op |-> "resetPartFinder"]
    /\ UNCHANGED <<apiKey, appVars, formError, tasks, aiCalls, svc, svcCount,
                   chatVars, voice>>

\* App.handleOpenPartFinder, from the solution view's 'Find Replacement Part'
handleOpenPartFinder ==
    /\ renderContent.view = "SolutionDisplay"
    /\ partFinderResult' = null
    /\ partFinderError' = nullText
    /\ modalState' = "partFinder"
    /\ UNCHANGED isPartFinderLoading
    /\ PartFinderInputFollows(partTasks)
    /\ lastOp' = [op |-> "handleOpenPartFinder"]
    /\ UNCHANGED <<apiKey, appVars, formError, tasks, aiCalls, svc, svcCount,
                   chatVars, voice>>

\* the Modal's onClose, from its close button or a click on its backdrop
closeModal ==
    /\ "Close modal" \in Modal.buttons
    /\ modalState' = "none"
    /\ UNCHANGED <<isPartFinderLoading, partFinderError, partFinderResult>>
    /\ PartFinderInputFollows(partTasks)
    /\ lastOp' = [op |-> "closeModal"]
    /\ UNCHANGED <<apiKey, appVars, formError, tasks, aiCalls, svc, svcCount,
                   chatVars, voice>>

\* the image the part finder's form holds: none, or an image file
PartImages == {null, [type |-> <<"image/", "png">>]}

submitPartForm == \E imageFile \in PartImages : PartFinderInput_handleSubmit(imageFile)

partFileRead == \E id \in PartTaskIds : handleIdentifyPart(id)

partFileReadError == \E id \in PartTaskIds : partFileReadFails(id)

partRequestResolves == \E id \in PartTaskIds : identifyPartResolved(id)

partRequestRejects == \E id \in PartTaskIds : identifyPartRejected(id)

\* ---------------------------------------------------------- chat component
\* Chat text is a sequence of tokens in which every whitespace character,
\* asterisk and hyphen is a token of its own.

\* the end of the whitespace run that starts at position i
RECURSIVE SkipSpace(_, _)
SkipSpace(s, i) ==
    IF i <= Len(s) /\ IsSpace(s[i]) THEN SkipSpace(s, i + 1) ELSE i

\* text.replace(/^(\s*[-*])\s+/gm, '• ') from position i on: a match starts
\* at the start of a line, takes whitespace, one '-' or '*', and the
\* whitespace after it, which must not be empty
RECURSIVE ReplaceListPrefixes(_, _)
ReplaceListPrefixes(s, i) ==
    IF i > Len(s) THEN << >>
    ELSE LET lineStart == i = 1 \/ s[i - 1] = "\n"
             mark == SkipSpace(s, i)
             rest == SkipSpace(s, mark + 1)
         IN IF /\ lineStart
               /\ mark <= Len(s)
               /\ s[mark] \in {"-", "*"}
               /\ rest > mark + 1
            THEN <<"(bullet)", " ">> \o ReplaceListPrefixes(s, rest)
            ELSE <<s[i]>> \o ReplaceListPrefixes(s, i + 1)

IsNoAsterisk(tok) == tok # "*"

\* formatResponseText: list prefixes become bullets, then every asterisk
\* that is left is removed
formatResponseText(text) ==
    SelectSeq(ReplaceListPrefixes(text, 1), IsNoAsterisk)

\* the replies a chat stream can bring, each as its chunks in arrival order
ChatReplies ==
    { << >>,
      << <<"Yes">> >>,
      << <<"*">>, <<" ", "Use", " ", "tape">> >>,
      << <<"*", "*", "Stop", "*">>, <<"*", "\n", "-", " ", "Dry", " ", "it">> >> }

\* what is typed into the chat input: blank, or a question
ChatInputs == { <<" ">>, <<"which", " ", "tape", " ">> }

FreeStreamIds == { i \in StreamIds : streams[i].status = "unused" }

Concat(chunks) == Join(chunks, << >>)

\* the setMessages updater of the streaming loop and of the catch block: the
\* last message, if it is the AI's, gets the text and stops loading
WithLastAiText(msgs, text) ==
    IF msgs # << >> /\ msgs[Len(msgs)].sender = "ai"
    THEN [msgs EXCEPT ![Len(msgs)] = [sender |-> "ai", text |-> text, isLoading |-> FALSE]]
    ELSE msgs

\* handleSendMessage without the isSending half of its guard
handleSendMessage_NoSendingTest(input) ==
    /\ renderContent.chatView
    /\ LET trimmedInput == Trim(input)
       IN IF trimmedInput = << >>
          THEN /\ UNCHANGED <<chatVars, aiCalls>>
               /\ lastOp' = [op |-> "handleSendMessage", sent |-> FALSE]
          ELSE /\ FreeStreamIds # {}
               /\ RequestsStarted < MaxRequests
               /\ isSending' = TRUE
               /\ messages' = messages \o
                     << [sender |-> "user", text |-> trimmedInput, isLoading |-> FALSE],
                        [sender |-> "ai", text |-> << >>, isLoading |-> TRUE] >>
               /\ LET id == CHOOSE i \in FreeStreamIds : \A j \in FreeStreamIds : i <= j
                  IN /\ streams' = [streams EXCEPT ![id] =
                                       [status |-> "sending", mounted |-> TRUE,
                                        session |-> chat, calls |-> 1]]
                     /\ lastOp' = [op |-> "handleSendMessage", sent |-> TRUE, id |-> id]
               /\ aiCalls' = aiCalls + 1
    /\ UNCHANGED <<apiKey, appVars, formError, tasks, svc, svcCount, finderVars, voice>>

\* ChatComponent.handleSendMessage up to `await chat.sendMessageStream(...)`
handleSendMessage(input) ==
    /\ renderContent.chatView
    /\ LET trimmedInput == Trim(input)
       IN IF trimmedInput = << >> \/ isSending
          THEN /\ UNCHANGED <<chatVars, aiCalls>>
               /\ lastOp' = [op |-> "handleSendMessage", sent |-> FALSE]
          ELSE /\ FreeStreamIds # {}
               /\ RequestsStarted < MaxRequests
               /\ isSending' = TRUE
               /\ messages' = messages \o
                     << [sender |-> "user", text |-> trimmedInput, isLoading |-> FALSE],
                        [sender |-> "ai", text |-> << >>, isLoading |-> TRUE] >>
               /\ LET id == CHOOSE i \in FreeStreamIds : \A j \in FreeStreamIds : i <= j
                  IN /\ streams' = [streams EXCEPT ![id] =
                                       [status |-> "sending", mounted |-> TRUE,
                                        session |-> chat, calls |-> 1]]
                     /\ lastOp' = [op |-> "handleSendMessage", sent |-> TRUE, id |-> id]
               /\ aiCalls' = aiCalls + 1
    /\ UNCHANGED <<apiKey, appVars, formError, tasks, svc, svcCount, finderVars, voice>>

\* chat.sendMessageStream resolves with the stream of one reply
streamOpens(id) ==
    /\ streams[id].status = "sending"
    /\ \E reply \in ChatReplies :
          streams' = [streams EXCEPT ![id] =
                         [status |-> "streaming", mounted |-> streams[id].mounted,
                          session |-> streams[id].session, calls |-> streams[id].calls,
                          reply |-> reply, consumed |-> 0, accumulatedText |-> << >>]]
    /\ lastOp' = [op |-> "streamOpens", id |-> id]
    /\ UNCHANGED <<apiKey, appVars, formError, tasks, aiCalls, svc, svcCount,
                   finderVars, messages, isSending, voice>>

\* the loop's body with each chunk formatted on its own and appended
streamChunk_FormatsChunk(id) ==
    /\ streams[id].status = "streaming"
    /\ streams[id].consumed < Len(streams[id].reply)
    /\ LET chunk == streams[id].reply[streams[id].consumed + 1]
           accumulatedText == streams[id].accumulatedText \o chunk
       IN /\ streams' = [streams EXCEPT ![id].consumed = @ + 1,
                                        ![id].accumulatedText = accumulatedText]
          /\ messages' = IF streams[id].mounted
                         THEN WithLastAiText(messages,
                                  messages[Len(messages)].text \o formatResponseText(chunk))
                         ELSE messages
          /\ lastOp' = [op |-> "streamChunk", id |-> id, before |-> messages,
                        applied |-> streams[id].mounted]
    /\ UNCHANGED <<apiKey, appVars, formError, tasks, aiCalls, svc, svcCount,
                   finderVars, isSending, voice>>

\* one turn of `for await (const chunk of stream)`: the next chunk arrives
streamChunk(id) ==
    /\ streams[id].status = "streaming"
    /\ streams[id].consumed < Len(streams[id].reply)
    /\ LET chunk == streams[id].reply[streams[id].consumed + 1]
           accumulatedText == streams[id].accumulatedText \o chunk
       IN /\ streams' = [streams EXCEPT ![id].consumed = @ + 1,
                                        ![id].accumulatedText = accumulatedText]
          /\ messages' = IF streams[id].mounted
                         THEN WithLastAiText(messages, formatResponseText(accumulatedText))
                         ELSE messages
          /\ lastOp' = [op |-> "streamChunk", id |-> id, before |-> messages,
                        applied |-> streams[id].mounted]
    /\ UNCHANGED <<apiKey, appVars, formError, tasks, aiCalls, svc, svcCount,
                   finderVars, isSending, voice>>

\* the stream is exhausted: the loop ends and the finally block runs
streamEnds(id) ==
    /\ streams[id].status = "streaming"
    /\ streams[id].consumed = Len(streams[id].reply)
    /\ streams' = [streams EXCEPT ![id].status = "done"]
    /\ isSending' = IF streams[id].mounted THEN FALSE ELSE isSending
    /\ lastOp' = [op |-> "streamEnds", id |-> id]
    /\ UNCHANGED <<apiKey, appVars, formError, tasks, aiCalls, svc, svcCount,
                   finderVars, messages, voice>>

\* sendMessageStream rejects or the stream throws: catch and finally
streamThrows(id) ==
    /\ streams[id].status \in {"sending", "streaming"}
    /\ streams' = [streams EXCEPT ![id].status = "failed"]
    /\ messages' = IF streams[id].mounted
                   THEN WithLastAiText(messages,
                            <<"Sorry, I couldn't process that. Please try again.">>)
                   ELSE messages
    /\ isSending' = IF streams[id].mounted THEN FALSE ELSE isSending
    /\ lastOp' = [op |-> "streamThrows", id |-> id]
    /\ UNCHANGED <<apiKey, appVars, formError, tasks, aiCalls, svc, svcCount,
                   finderVars, voice>>

sendChatForm == \E input \in ChatInputs : handleSendMessage(input)

chatStreamOpens == \E id \in StreamIds : streamOpens(id)

chatChunkArrives == \E id \in StreamIds : streamChunk(id)

chatStreamEnds == \E id \in StreamIds : streamEnds(id)

chatStreamThrows == \E id \in StreamIds : streamThrows(id)

\* ------------------------------------------------------------ the whole app
NextApp ==
    \/ submitForm
    \/ fileRead
    \/ fileReadError
    \/ requestResolves
    \/ requestRejects
    \/ clickCheckMyWork
    \/ handleReset
    \/ handleOpenPartFinder
    \/ closeModal
    \/ submitPartForm
    \/ partFileRead
    \/ partFileReadError
    \/ partRequestResolves
    \/ partRequestRejects
    \/ resetPartFinder
    \/ sendChatForm
    \/ chatStreamOpens
    \/ chatChunkArrives
    \/ chatStreamEnds
    \/ chatStreamThrows

SpecApp == Init /\ [][NextApp]_vars

\* the repair flow with the part finder
NextFinder ==
    \/ Next
    \/ handleOpenPartFinder
    \/ closeModal
    \/ submitPartForm
    \/ partFileRead
    \/ partFileReadError
    \/ partRequestResolves
    \/ partRequestRejects
    \/ resetPartFinder

SpecFinder == Init /\ [][NextFinder]_vars

\* the repair flow with the follow-up chat
NextChat ==
    \/ Next
    \/ sendChatForm
    \/ chatStreamOpens
    \/ chatChunkArrives
    \/ chatStreamEnds
    \/ chatStreamThrows

SpecChat == Init /\ [][NextChat]_vars

\* ------------------------------------------------------- voice-input form
\* The InputForm that takes the description by microphone, in a browser that
\* has speech recognition (hasSpeechRecognition is true: without it the
\* microphone button is not rendered).

\* what is typed into the description
VoiceDescriptions == { << >>, <<"sink", " ">> }

\* what the recognizer reports as the session's transcript so far
Transcripts == { <<"it">>, <<"it", " ", "drips", " ">> }

\* the steps of the voice-input form leave the rest of the app alone
VoiceFrame ==
    UNCHANGED <<apiKey, appVars, formError, tasks, aiCalls, svc, svcCount,
                finderVars, chatVars>>

\* the hooks before a handler ran
VoiceBefore ==
    [problemDescription |-> voice.problemDescription,
     transcript |-> voice.transcript,
     isListening |-> voice.isListening]

\* the functional update of handleStopListening
AppendTranscript(prev, transcript) ==
    (IF prev # << >> THEN Trim(prev) \o <<" ">> ELSE << >>) \o Trim(transcript)

\* the textarea's onChange
setProblemDescription(text) ==
    /\ voice' = [voice EXCEPT !.problemDescription = text]
    /\ lastOp' = [op |-> "setProblemDescription", before |-> VoiceBefore]
    /\ VoiceFrame

\* handleFileChange with an image file
handleFileChange ==
    /\ ~voice.imageFile
    /\ voice' = [voice EXCEPT !.imageFile = TRUE, !.error = nullText]
    /\ lastOp' = [op |-> "handleFileChange", before |-> VoiceBefore]
    /\ VoiceFrame

\* handleStartListening; recognition.start() throws while the recognizer of
\* an earlier session has not ended yet
handleStartListening ==
    /\ voice.listens < MaxListens
    /\ IF voice.isListening
       THEN voice' = [voice EXCEPT !.listens = @ + 1]
       ELSE IF voice.recognizing
       THEN voice' = [voice EXCEPT
                         !.transcript = << >>,
                         !.error = <<"Could not start voice recognition. Please check microphone permissions.">>,
                         !.listens = @ + 1]
       ELSE voice' = [voice EXCEPT !.transcript = << >>, !.isListening = TRUE,
                                   !.recognizing = TRUE, !.listens = @ + 1]
    /\ lastOp' = [op |-> "handleStartListening", before |-> VoiceBefore]
    /\ VoiceFrame

\* recognition.onresult: the transcript of the session so far
onresult(text) ==
    /\ voice.recognizing
    /\ voice' = [voice EXCEPT !.transcript = text]
    /\ lastOp' = [op |-> "recognition.onresult", before |-> VoiceBefore]
    /\ VoiceFrame

\* recognition.onerror
onerror ==
    /\ voice.recognizing
    /\ voice' = [voice EXCEPT
                    !.error = <<"Speech recognition error: ", "no-speech",
                                ". Please ensure microphone access is allowed.">>,
                    !.isListening = FALSE]
    /\ lastOp' = [op |-> "recognition.onerror", before |-> VoiceBefore]
    /\ VoiceFrame

\* recognition.onend: the recognizer has stopped, by itself or after stop()
onend ==
    /\ voice.recognizing
    /\ voice' = [voice EXCEPT !.isListening = FALSE, !.recognizing = FALSE]
    /\ lastOp' = [op |-> "recognition.onend", before |-> VoiceBefore]
    /\ VoiceFrame

\* the hooks after handleStopListening
StoppedListening(v) ==
    IF v.isListening
    THEN [v EXCEPT !.isListening = FALSE,
                   !.problemDescription = AppendTranscript(@, v.transcript),
                   !.transcript = << >>]
    ELSE v

\* handleStopListening, from the listening modal's Done button
handleStopListening ==
    /\ voice.isListening
    /\ voice' = StoppedListening(voice)
    /\ lastOp' = [op |-> "handleStopListening", before |-> VoiceBefore]
    /\ VoiceFrame

\* InputForm.handleSubmit up to `await fileToBase64(imageFile)`: it stops a
\* listening session, then tests and keeps the imageFile and the
\* problemDescription of the render it was created in
voiceHandleSubmit ==
    /\ voice.reading = nullText
    /\ LET stopped == StoppedListening(voice)
       IN voice' =
             IF ~voice.imageFile
             THEN [stopped EXCEPT !.error = <<"Please upload an image of the problem.">>]
             ELSE IF Trim(voice.problemDescription) = << >>
             THEN [stopped EXCEPT !.error = <<"Please describe the problem.">>]
             ELSE [stopped EXCEPT !.error = nullText,
                                  !.reading = voice.problemDescription,
                                  !.readingFrom = VoiceBefore]
    /\ lastOp' = [op |-> "handleSubmit", before |-> VoiceBefore]
    /\ VoiceFrame

\* fileToBase64 resolves: onSubmit is called with the description kept
voiceFileRead ==
    /\ voice.reading # nullText
    /\ voice' = [voice EXCEPT !.submitted = voice.reading, !.reading = nullText]
    /\ lastOp' = [op |-> "onSubmit", before |-> voice.readingFrom]
    /\ VoiceFrame

\* fileToBase64 rejects
voiceFileReadFails ==
    /\ voice.reading # nullText
    /\ voice' = [voice EXCEPT !.error = <<"Could not process the image file.">>,
                              !.reading = nullText]
    /\ lastOp' = [op |-> "voiceFileReadFails", before |-> VoiceBefore]
    /\ VoiceFrame

typeDescription == \E text \in VoiceDescriptions : setProblemDescription(text)

speechResult == \E text \in Transcripts : onresult(text)

NextVoice ==
    \/ typeDescription
    \/ handleFileChange
    \/ handleStartListening
    \/ speechResult
    \/ onerror
    \/ onend
    \/ handleStopListening
    \/ voiceHandleSubmit
    \/ voiceFileRead
    \/ voiceFileReadFails

SpecVoice == Init /\ [][NextVoice]_vars

\* ------------------------------------------------- handlers called directly
\* handleCheckWork called with any index, as a test of the handler would
callHandleCheckWork ==
    \E stepIndex \in 0..MaxStepIndex : handleCheckWork(stepIndex)

NextUnit ==
    \/ Next
    \/ callHandleCheckWork

SpecUnit == Init /\ [][NextUnit]_vars

\* ------------------------------------------ service functions called directly
RequestOf(fn, mimeType, locale) ==
    CASE fn = "getFixItSolution" -> getFixItSolutionRequest(apiKey, mimeType, locale)
      [] fn = "identifyPart" -> identifyPartRequest(apiKey, mimeType)
      [] fn = "verifyStep" -> verifyStepRequest(apiKey, mimeType)

SettlementOf(fn, request, outcome) ==
    CASE fn = "getFixItSolution" -> getFixItSolution(request, outcome)
      [] fn = "identifyPart" -> identifyPart(request, outcome)
      [] fn = "verifyStep" -> verifyStep(request, outcome)

\* the MIME types a caller hands over: the form's, and one that has 'video/'
\* in it but not at its start
ServiceMimeTypes == MimeTypes \cup {<<"application/", "video/", "x">>}

\* a caller calls one of the exported functions: the function up to its await
callService ==
    /\ svc = null
    /\ svcCount < MaxServiceCalls
    /\ \E fn \in ServiceFn, mimeType \in ServiceMimeTypes, locale \in Locale :
         /\ fn # "getFixItSolution" => locale = DefaultLocale
         /\ LET request == RequestOf(fn, mimeType, locale)
            IN /\ svc' = [fn |-> fn, locale |-> locale, mimeType |-> mimeType,
                          request |-> request, status |-> "pending"]
               /\ aiCalls' = aiCalls + (IF request.via = "generateContent" THEN 1 ELSE 0)
    /\ svcCount' = svcCount + 1
    /\ UNCHANGED <<apiKey, appVars, formError, tasks, lastOp, finderVars,
                   chatVars, voice>>

\* the timer fires or the call to the AI service ends: the promise settles
serviceSettles ==
    /\ svc # null
    /\ svc.status = "pending"
    /\ \E outcome \in OutcomesOf(svc.fn, svc.request) :
         svc' = [fn |-> svc.fn, locale |-> svc.locale, mimeType |-> svc.mimeType,
                 request |-> svc.request, status |-> "settled",
                 outcome |-> outcome,
                 settlement |-> SettlementOf(svc.fn, svc.request, outcome)]
    /\ UNCHANGED <<apiKey, appVars, formError, tasks, aiCalls, lastOp, svcCount,
                   finderVars, chatVars, voice>>

\* the caller has taken the result
serviceReturns ==
    /\ svc # null
    /\ svc.status = "settled"
    /\ svc' = null
    /\ UNCHANGED <<apiKey, appVars, formError, tasks, aiCalls, lastOp, svcCount,
                   finderVars, chatVars, voice>>

NextService ==
    \/ callService
    \/ serviceSettles
    \/ serviceReturns

SpecService == Init /\ [][NextService]_vars

\* =================================================================== claims

\* C1: whenever getFixItSolution's result has risk 'High', the UI renders
\* only the safety-warning view (no step list, no tool list, no follow-up
\* chat, no 'Check My Work' button), and handling that result does not call
\* startChatSession.
C1_HighRiskRendersOnlyWarning ==
    /\ (lastOp.op = "getSolutionResolved" /\ lastOp.result.risk = "High") =>
          /\ ~lastOp.startedChat
          /\ appState = "solution"
          /\ solution = lastOp.result
    /\ (appState = "solution" /\ solution # null /\ solution.risk = "High") =>
          /\ renderContent.view = "HighRiskWarning"
          /\ ~renderContent.stepList
          /\ ~renderContent.toolList
          /\ ~renderContent.chatView
          /\ renderContent.checkWork = {}

\* a High-risk answer that carries a diagnosis and instructions all the same
\* has been handled, while an earlier request's chat session is still held
C1_Witness ==
    /\ lastOp.op = "getSolutionResolved"
    /\ lastOp.result.risk = "High"
    /\ TruthyString(lastOp.result, "diagnosis")
    /\ TruthyArray(lastOp.result, "instructions")
    /\ chat # null
    /\ renderContent.view = "HighRiskWarning"

\* C2 as stated: every submit of the form with a file selected and a
\* non-empty description calls getFixItSolution exactly once, and appState is
\* 'loading' from that call on, before it settles.
C2_AsStated ==
    /\ (/\ lastOp.op = "handleSubmit"
        /\ lastOp.file # null
        /\ lastOp.description # << >>) => lastOp.reading
    /\ \A id \in TaskIds :
          tasks[id].status \in {"fetching", "settled", "unreadable"} =>
              tasks[id].fetchCalls = 1
    /\ lastOp.op = "handleGetSolution" => appState = "loading"

\* C2 (amended): every submit of the form with a file selected and a
\* description that is non-empty after trimming starts reading the file; once
\* the file has been read the handler calls getFixItSolution exactly once and
\* sets appState to 'loading' in the same step, before the call settles; a
\* submit whose file cannot be read makes no call.
C2_SubmitCallsFetchOnce ==
    /\ (/\ lastOp.op = "handleSubmit"
        /\ lastOp.file # null
        /\ Trim(lastOp.description) # << >>) => lastOp.reading
    /\ \A id \in TaskIds :
          /\ tasks[id].status \in {"fetching", "settled"} => tasks[id].fetchCalls = 1
          /\ tasks[id].status \in {"reading", "unreadable"} => tasks[id].fetchCalls = 0
    /\ lastOp.op = "handleGetSolution" =>
          /\ appState = "loading"
          /\ tasks[lastOp.id].status = "fetching"

\* a submit has just issued its one call, which has not settled
C2_Witness ==
    /\ lastOp.op = "handleGetSolution"
    /\ tasks[lastOp.id].status = "fetching"
    /\ tasks[lastOp.id].fetchCalls = 1
    /\ appState = "loading"

\* every instruction of the list is in the text, each followed by a newline
\* and the next one
HoldsInOrder(text, list) ==
    /\ \A i \in 1..Len(list) : Includes(text, list[i])
    /\ \A i \in 1..(Len(list) - 1) :
          Includes(text, list[i] \o <<"\n">> \o list[i + 1])

\* C3 as stated: when getFixItSolution resolves with risk 'Low' or 'Medium'
\* and both diagnosis and instructions present, the chat state becomes
\* non-null, from a context holding the diagnosis and the instructions in
\* order, joined by newline.
C3_AsStated ==
    (/\ lastOp.op = "getSolutionResolved"
     /\ lastOp.result.risk \in {"Low", "Medium"}
     /\ "diagnosis" \in DOMAIN lastOp.result
     /\ "instructions" \in DOMAIN lastOp.result) =>
        /\ chat # null
        /\ Includes(chat.systemInstruction, lastOp.result.diagnosis)
        /\ HoldsInOrder(chat.systemInstruction, lastOp.result.instructions)

\* C3 (amended): with a credential configured, when getFixItSolution resolves
\* with risk 'Low' or 'Medium', a non-empty diagnosis and instructions
\* present, the chat state becomes a session created from a context that
\* holds the problem description, the diagnosis and all instructions in
\* their order, joined by newline.
C3_ChatSessionFromContext ==
    (/\ lastOp.op = "getSolutionResolved"
     /\ apiKey
     /\ lastOp.result.risk \in {"Low", "Medium"}
     /\ "diagnosis" \in DOMAIN lastOp.result
     /\ lastOp.result.diagnosis # << >>
     /\ "instructions" \in DOMAIN lastOp.result) =>
        /\ lastOp.startedChat
        /\ chat # null
        /\ Includes(chat.systemInstruction, lastOp.description)
        /\ Includes(chat.systemInstruction, lastOp.result.diagnosis)
        /\ HoldsInOrder(chat.systemInstruction, lastOp.result.instructions)

\* a Low-risk answer with three instructions has started a chat session
C3_Witness ==
    /\ lastOp.op = "getSolutionResolved"
    /\ apiKey
    /\ lastOp.result.risk = "Low"
    /\ TruthyArray(lastOp.result, "instructions")
    /\ Len(lastOp.result.instructions) = 3
    /\ chat # null

\* C4: handleCheckWork(stepIndex) changes currentStepProgress only if a
\* solution with instructions is held and stepIndex is less than the number
\* of instructions (it then becomes stepIndex + 1); in every other case
\* currentStepProgress is unchanged.
C4_AdvancesOnlyBelowCount ==
    lastOp.op = "handleCheckWork" =>
        IF /\ solution # null
           /\ "instructions" \in DOMAIN solution
           /\ lastOp.stepIndex < Len(solution.instructions)
        THEN currentStepProgress = lastOp.stepIndex + 1
        ELSE currentStepProgress = lastOp.before

\* the handler was called on a held solution with an index at or past the
\* instruction count, after the counter had advanced, and left it alone
C4_Witness ==
    /\ lastOp.op = "handleCheckWork"
    /\ solution # null
    /\ "instructions" \in DOMAIN solution
    /\ lastOp.stepIndex >= Len(solution.instructions)
    /\ lastOp.before > 0
    /\ currentStepProgress = lastOp.before

\* C5: while a solution is held (from the step that stores it to the next
\* submit or reset, which clear it), no step lowers currentStepProgress,
\* whatever 'Check My Work' clicks the step list allows.
C5_ProgressNonDecreasing ==
    [][(solution # null /\ solution' # null) =>
          currentStepProgress' >= currentStepProgress]_vars

\* two steps of one solution have been checked off
C5_Witness ==
    /\ lastOp.op = "handleCheckWork"
    /\ solution # null
    /\ lastOp.before >= 1
    /\ currentStepProgress = lastOp.before + 1

\* C6: after handleReset every piece of main-flow state is at its initial
\* value: appState 'idle', solution, error and chat null, currentStepProgress 0.
C6_ResetRestoresInitialState ==
    lastOp.op = "handleReset" =>
        /\ appState = "idle"
        /\ solution = null
        /\ error = nullText
        /\ chat = null
        /\ currentStepProgress = 0

\* handleReset ran on a displayed solution with a chat session and steps
\* checked off
C6_Witness ==
    /\ lastOp.op = "handleReset"
    /\ lastOp.before.appState = "solution"
    /\ lastOp.before.solution
    /\ lastOp.before.chat
    /\ lastOp.before.progress

\* C7 as stated: appState changes only along idle -> loading,
\* loading -> solution, loading -> error, solution -> idle, error -> idle.
C7_AsStated ==
    [][appState' # appState =>
          <<appState, appState'>> \in
              { <<"idle", "loading">>, <<"loading", "solution">>,
                <<"loading", "error">>, <<"solution", "idle">>,
                <<"error", "idle">> }]_vars

\* the fixed 'unknown error' text of each request function
UnknownErrorText(fn) ==
    CASE fn = "getFixItSolution" ->
            <<"An unknown error occurred while fetching the solution.">>
      [] fn = "identifyPart" ->
            <<"An unknown error occurred while identifying the part.">>
      [] fn = "verifyStep" ->
            <<"An unknown error occurred while verifying the step.">>

\* C8: with a credential configured, a failed call of getFixItSolution,
\* identifyPart or verifyStep is rejected, never resolved: with the fixed
\* invalid-key message when it threw an Error whose message contains
\* "API key not valid", with a message containing the service's error text
\* for any other Error, and with the function's fixed 'unknown error' message
\* when the thrown value is no Error.
C8_FailureMapping ==
    (/\ svc # null
     /\ svc.status = "settled"
     /\ svc.request.via = "generateContent"
     /\ svc.outcome.kind # "ok") =>
        /\ svc.settlement.status = "rejected"
        /\ svc.outcome.kind = "error" =>
              IF Includes(svc.outcome.message, <<"API key not valid">>)
              THEN svc.settlement.message =
                      <<"Your API key is not valid. Please check it in your environment variables.">>
              ELSE /\ Includes(svc.settlement.message, svc.outcome.message)
                   /\ Len(svc.settlement.message) > Len(svc.outcome.message)
        /\ svc.outcome.kind = "thrown" =>
              svc.settlement.message = UnknownErrorText(svc.fn)

\* verifyStep failed with an Error whose message has the invalid-key text
\* inside a longer text
C8_Witness ==
    /\ svc # null
    /\ svc.status = "settled"
    /\ svc.fn = "verifyStep"
    /\ svc.request.via = "generateContent"
    /\ svc.outcome.kind = "error"
    /\ Len(svc.outcome.message) > 1
    /\ Includes(svc.outcome.message, <<"API key not valid">>)
    /\ svc.settlement.status = "rejected"

\* C9: without a credential no request function calls the AI service and
\* each resolves with its mock payload, never rejecting; a submit whose
\* request was issued always ends in the 'solution' state with the Low-risk
\* mock solution.
C9_NoCredentialMock ==
    /\ [](~apiKey =>
            /\ aiCalls = 0
            /\ \A id \in TaskIds :
                  tasks[id].status = "fetching" => tasks[id].request.via = "setTimeout"
            /\ lastOp.op # "getSolutionRejected"
            /\ appState # "error"
            /\ error = nullText
            /\ solution # null => (solution = MOCK_SOLUTION /\ solution.risk = "Low")
            /\ lastOp.op = "getSolutionResolved" =>
                  (appState = "solution" /\ solution = MOCK_SOLUTION)
            /\ \A m \in MimeTypes :
                  /\ identifyPartRequest(apiKey, m).via = "setTimeout"
                  /\ identifyPart(identifyPartRequest(apiKey, m), [kind |-> "timer"])
                        = [status |-> "resolved", value |-> MOCK_PART]
                  /\ verifyStepRequest(apiKey, m).via = "setTimeout"
                  /\ verifyStep(verifyStepRequest(apiKey, m), [kind |-> "timer"])
                        = [status |-> "resolved", value |-> MOCK_VERIFICATION])
    /\ \A id \in TaskIds :
          (~apiKey /\ tasks[id].status = "fetching")
              ~> (/\ tasks[id].status = "settled"
                  /\ appState = "solution"
                  /\ solution = MOCK_SOLUTION)

\* without a credential a submit's request has resolved with the mock solution
C9_Witness ==
    /\ ~apiKey
    /\ lastOp.op = "getSolutionResolved"
    /\ tasks[lastOp.id].status = "settled"
    /\ appState = "solution"
    /\ solution = MOCK_SOLUTION
    /\ aiCalls = 0

\* C10 as stated: when getFixItSolution rejects, appState becomes 'error' and
\* error holds a non-empty message (the rejection's message, or 'An
\* unexpected error occurred.' when it has none), while solution and chat
\* remain null.
C10_AsStated ==
    lastOp.op = "getSolutionRejected" =>
        /\ appState = "error"
        /\ error # nullText
        /\ error # << >>
        /\ error = (IF lastOp.message # << >> THEN lastOp.message
                    ELSE <<"An unexpected error occurred.">>)
        /\ solution = null
        /\ chat = null

\* the steps the buttons inside the open modal offer
ModalAction ==
    \/ closeModal
    \/ submitPartForm
    \/ resetPartFinder

\* C11 as stated: every error state offers a user action that clears the
\* error and returns that flow to its input form: in the main flow's 'error'
\* state a reset is offered and leads to the idle form with no error, and
\* while the part finder shows its error the modal offers an action that
\* leaves the part finder with no error and its input form shown.
C11_AsStated ==
    /\ appState = "error" =>
          /\ ResetOffered
          /\ ENABLED (handleReset /\ error' = nullText
                        /\ renderContent'.view = "InputForm")
    /\ Modal.view = "ErrorAlert" =>
          ENABLED (ModalAction /\ partFinderError' = nullText
                     /\ PartFinderInputShown')

\* the calls of the service made for the accepted submits, part finder
\* submits and chat sends
CallsMade ==
    { <<"submit", i>> : i \in { j \in TaskIds :
          tasks[j].status # "unused" /\ tasks[j].fetchCalls > 0 } }
      \cup { <<"identify", i>> : i \in { j \in PartTaskIds :
          partTasks[j].status # "unused" /\ partTasks[j].calls > 0 } }
      \cup { <<"send", i>> : i \in { j \in StreamIds : streams[j].status # "unused" } }

\* C12: no request is retried automatically: each accepted submit, part
\* finder submit and chat send makes at most one call of the service; a call
\* to the AI service is issued only by the step of a handler that a user
\* action started, one call per step; and once a request has settled or
\* failed, its record never changes again, so it calls nothing more.
C12_NoAutomaticRetry ==
    /\ [](/\ \A id \in TaskIds :
               tasks[id].status # "unused" => tasks[id].fetchCalls <= 1
          /\ \A id \in PartTaskIds :
               partTasks[id].status # "unused" => partTasks[id].calls <= 1
          /\ \A id \in StreamIds :
               streams[id].status # "unused" => streams[id].calls <= 1
          /\ aiCalls <= Cardinality(CallsMade)
          /\ Cardinality(CallsMade) <= RequestsStarted)
    /\ [][/\ aiCalls' # aiCalls =>
               /\ aiCalls' = aiCalls + 1
               /\ lastOp'.op \in {"handleGetSolution", "handleIdentifyPart",
                                  "handleSendMessage"}
          /\ \A id \in TaskIds :
               tasks[id].status \in {"settled", "unreadable"} => tasks'[id] = tasks[id]
          /\ \A id \in PartTaskIds :
               partTasks[id].status \in {"settled", "unreadable"} =>
                   partTasks'[id] = partTasks[id]
          /\ \A id \in StreamIds :
               streams[id].status \in {"done", "failed"} => streams'[id] = streams[id]]_vars

\* a submit, a part identification and a chat send have each called the AI
\* service once, and the last two calls have failed
C12_Witness ==
    /\ apiKey
    /\ partTasks[1].status = "settled"
    /\ partFinderError # nullText
    /\ streams[1].status = "failed"
    /\ lastOp.op = "streamThrows"
    /\ aiCalls = 3

\* C13: while a chat reply streams, the chunks are taken one at a time in
\* arrival order and put into the last message in place: after the k-th chunk
\* the last message of the list is the AI reply and holds formatResponseText
\* of the concatenation of chunks 1..k, and no other message of the list has
\* changed.
C13_ChunksAppendedInPlace ==
    (lastOp.op = "streamChunk" /\ lastOp.applied) =>
        LET stream == streams[lastOp.id]
            k == stream.consumed
            last == Len(messages)
        IN /\ k >= 1
           /\ stream.accumulatedText = Concat(SubSeq(stream.reply, 1, k))
           /\ last = Len(lastOp.before)
           /\ last >= 2
           /\ messages[last] =
                 [sender |-> "ai", isLoading |-> FALSE,
                  text |-> formatResponseText(Concat(SubSeq(stream.reply, 1, k)))]
           /\ \A i \in 1..(last - 1) : messages[i] = lastOp.before[i]

\* the second chunk of the second reply of a conversation has arrived, and it
\* completed a list prefix that the first chunk began
C13_Witness ==
    /\ lastOp.op = "streamChunk"
    /\ lastOp.applied
    /\ streams[lastOp.id].consumed = 2
    /\ Len(messages) = 4
    /\ messages[2].text # << >>
    /\ Head(messages[4].text) = "(bullet)"

\* the steps of the part finder's handlers and of the modal
FinderStep ==
    \/ partFileRead
    \/ partRequestResolves
    \/ partRequestRejects
    \/ resetPartFinder
    \/ handleOpenPartFinder
    \/ closeModal

\* the steps of handleGetSolution and handleReset
RepairStep ==
    \/ fileRead
    \/ requestResolves
    \/ requestRejects
    \/ handleReset

\* C14: the part finder is independent of the main repair flow:
\* handleIdentifyPart (start and settle), resetPartFinder and opening and
\* closing the modal leave appState, solution, error, chat and
\* currentStepProgress unchanged, and handleGetSolution (start and settle)
\* and handleReset leave isPartFinderLoading, partFinderError,
\* partFinderResult and modalState unchanged.
C14_PartFinderIndependent ==
    [][/\ FinderStep => UNCHANGED appVars
       /\ RepairStep => UNCHANGED <<isPartFinderLoading, partFinderError,
                                    partFinderResult, modalState>>]_vars

\* handleReset has run on a plan with steps checked off while the part
\* finder holds a result, and a part request has settled before it
C14_Witness ==
    /\ lastOp.op = "handleReset"
    /\ lastOp.before.progress
    /\ partFinderResult # null
    /\ partTasks[1].status = "settled"
    /\ appState = "idle"

\* C15: getFixItSolution selects the video instruction template exactly when
\* the MIME type starts with 'video/' and the photo template otherwise, and
\* the system instruction it sends has the caller's locale in the place of
\* the '{locale}' placeholder, with no placeholder left, for each of the four
\* locales.
C15_TemplateAndLocale ==
    (/\ svc # null
     /\ svc.fn = "getFixItSolution"
     /\ svc.request.via = "generateContent") =>
        LET sent == svc.request.systemInstruction
        IN /\ svc.locale \in Locale
           /\ Head(svc.mimeType) = "video/" =>
                 Head(sent) = "You are a master repair technician"
           /\ Head(svc.mimeType) # "video/" =>
                 Head(sent) = "You are an expert DIY assistant"
           /\ Len(sent) = Len(SYSTEM_INSTRUCTION_PHOTO) - 1 + Len(svc.locale)
           /\ Includes(sent, <<"The user is located in **">> \o svc.locale
                               \o <<"**. Your suggestions">>)
           /\ \A i \in 1..Len(sent) : sent[i] # "{locale}"

\* a video has been sent for a user in the UK
C15_Witness ==
    /\ svc # null
    /\ svc.fn = "getFixItSolution"
    /\ svc.request.via = "generateContent"
    /\ Head(svc.mimeType) = "video/"
    /\ svc.locale = <<"UK">>
    /\ Includes(svc.request.systemInstruction, <<"The user is located in **", "UK">>)

\* C16 as stated: every Solution held in view state has the risk-gated
\* shape: safetyWarning is present iff risk is 'High'; a High-risk solution
\* carries only risk and safetyWarning; a non-High solution carries the full
\* field set.
C16_AsStated ==
    solution # null =>
        /\ ("safetyWarning" \in DOMAIN solution) <=> (solution.risk = "High")
        /\ solution.risk = "High" => DOMAIN solution = {"risk", "safetyWarning"}
        /\ solution.risk # "High" =>
              {"risk", "diagnosis", "tools", "instructions", "difficulty",
               "estimatedTime", "potentialPitfalls"} \subseteq DOMAIN solution

\* C17 as stated: whenever a new chat session object is handed to the chat
\* view (a new solution's session), the message list shown is empty: it has
\* no message sent or received in an earlier session.
C17_AsStated ==
    (/\ lastOp.op = "getSolutionResolved"
     /\ lastOp.startedChat
     /\ chat # null
     /\ renderContent.chatView) => messages = << >>

\* C18 as stated: whenever a listening session ends (Done pressed, the form
\* submitted while listening, or the recognizer ending or failing by itself)
\* the transcript recognized so far is appended to the problem description,
\* and a submit made while listening hands on the description with that
\* transcript in it.
C18_AsStated ==
    /\ (/\ lastOp.op \in {"handleStopListening", "handleSubmit",
                          "recognition.onend", "recognition.onerror"}
        /\ lastOp.before.isListening
        /\ Trim(lastOp.before.transcript) # << >>) =>
           /\ ~voice.isListening
           /\ voice.problemDescription =
                 AppendTranscript(lastOp.before.problemDescription,
                                  lastOp.before.transcript)
    /\ (/\ lastOp.op = "onSubmit"
        /\ lastOp.before.isListening
        /\ Trim(lastOp.before.transcript) # << >>) =>
           Includes(voice.submitted, Trim(lastOp.before.transcript))

\* C19: without a credential the follow-up chat is disabled: startChatSession
\* returns null, so chat stays null although handleGetSolution asks for a
\* session for the Low-risk mock solution, and the solution view renders no
\* chat view.
C19_NoCredentialNoChat ==
    ~apiKey =>
        /\ \A d \in Descriptions :
              startChatSession(apiKey, ChatContext(d, MOCK_SOLUTION)) = null
        /\ chat = null
        /\ ~renderContent.chatView
        /\ lastOp.op = "getSolutionResolved" =>
              /\ lastOp.result = MOCK_SOLUTION
              /\ lastOp.startedChat
              /\ renderContent.view = "SolutionDisplay"

\* without a credential the mock solution is on screen, a session was asked
\* for and chat is null
C19_Witness ==
    /\ ~apiKey
    /\ lastOp.op = "getSolutionResolved"
    /\ lastOp.startedChat
    /\ solution = MOCK_SOLUTION
    /\ renderContent.view = "SolutionDisplay"
    /\ chat = null
    /\ ~renderContent.chatView

\* C20 as stated, for the step that follows handleReset: unless that step is
\* the user submitting the form again, appState stays 'idle' and solution,
\* error and chat stay null; in particular the file read or the settling of
\* a request started before the reset changes nothing of the main flow.
C20_AsStated ==
    [][(/\ lastOp.op = "handleReset"
        /\ lastOp'.op # "handleSubmit") =>
           /\ appState' = "idle"
           /\ solution' = null
           /\ error' = nullText
           /\ chat' = null]_vars

\* C21 as stated: in every reachable state appState is 'solution' exactly
\* when solution is non-null and 'error' exactly when error is non-null, so
\* solution and error are never both non-null.
C21_AsStated ==
    /\ (appState = "solution") <=> (solution # null)
    /\ (appState = "error") <=> (error # nullText)
    /\ ~(solution # null /\ error # nullText)

\* C22 as stated: in every reachable state currentStepProgress lies between
\* 0 and the number of instructions of the held solution, and is 0 whenever
\* no solution, or a solution without instructions, is held.
C22_AsStated ==
    /\ currentStepProgress >= 0
    /\ IF solution # null /\ TruthyArray(solution, "instructions")
       THEN currentStepProgress <= Len(solution.instructions)
       ELSE currentStepProgress = 0

\* C23 as stated: whenever a non-High solution with n instructions is
\* displayed and currentStepProgress < n, the 'Check My Work' button of the
\* active step is rendered and pressing it is possible, so the progress can
\* be brought from 0 to n.
C23_AsStated ==
    (/\ renderContent.view = "SolutionDisplay"
     /\ currentStepProgress < Len(solution.instructions)) =>
        /\ currentStepProgress \in renderContent.checkWork
        /\ ENABLED clickCheckMyWork

\* C24 as stated: in every reachable state chat is non-null only if the held
\* solution is non-null, has a risk other than 'High', and has both a
\* diagnosis and instructions.
C24_AsStated ==
    chat # null =>
        /\ solution # null
        /\ solution.risk # "High"
        /\ TruthyString(solution, "diagnosis")
        /\ TruthyArray(solution, "instructions")

\* C25 as stated: after a chat send settles in the chat view, the stream
\* finished (with any number of chunks, none included) or failed, isSending
\* is false, no message is still loading, the list is made of user/ai pairs
\* in send order, and on failure the last AI message holds the apology.
C25_AsStated ==
    (/\ lastOp.op \in {"streamEnds", "streamThrows"}
     /\ streams[lastOp.id].mounted) =>
        /\ ~isSending
        /\ \A i \in 1..Len(messages) :
              /\ ~messages[i].isLoading
              /\ messages[i].sender = (IF i % 2 = 1 THEN "user" ELSE "ai")
        /\ Len(messages) % 2 = 0
        /\ lastOp.op = "streamThrows" =>
              messages[Len(messages)].text =
                 <<"Sorry, I couldn't process that. Please try again.">>

\* C26 as stated: in the part finder at most one of loading, error and
\* result is active in every reachable state: while isPartFinderLoading both
\* partFinderError and partFinderResult are null, and the two are never both
\* non-null, whatever the interleaving of identify requests.
C26_AsStated ==
    /\ isPartFinderLoading =>
          (partFinderError = nullText /\ partFinderResult = null)
    /\ ~(partFinderError # nullText /\ partFinderResult # null)

\* C27: a submit of the input form with no file selected, or with a
\* description that is empty or only whitespace, starts no file read, so
\* neither onSubmit nor the fetch function is called, leaves the main flow's
\* state as it is and sets the form's error message; a file read that fails
\* does the same (its message reaches the form while the form is on
\* screen), and the submit it belongs to never reaches the fetch function.
C27_InvalidSubmitStaysInForm ==
    /\ [][/\ (/\ lastOp'.op = "handleSubmit"
               /\ (lastOp'.file = null \/ Trim(lastOp'.description) = << >>)) =>
                  /\ UNCHANGED <<appVars, tasks, aiCalls>>
                  /\ appState' = "idle"
                  /\ IF lastOp'.file = null
                     THEN formError' \in
                             { <<"Please upload a ", mode, " of the problem.">> :
                                  mode \in {"photo", "video"} }
                     ELSE formError' = <<"Please describe the problem.">>
          /\ lastOp'.op = "fileReadFails" =>
                  /\ UNCHANGED <<appVars, aiCalls>>
                  /\ tasks[lastOp'.id].status = "reading"
                  /\ tasks'[lastOp'.id].status = "unreadable"
                  /\ tasks'[lastOp'.id].fetchCalls = 0
                  /\ \A i \in TaskIds \ {lastOp'.id} : tasks'[i] = tasks[i]
                  /\ tasks[lastOp'.id].mounted =>
                        formError' = <<"Could not process the file.">>]_vars
    /\ [](\A i \in TaskIds :
             tasks[i].status = "unreadable" => tasks[i].fetchCalls = 0)

\* a submit with an image and a description of one space was turned down
C27_Witness ==
    /\ lastOp.op = "handleSubmit"
    /\ lastOp.file # null
    /\ lastOp.description = <<" ">>
    /\ ~lastOp.reading
    /\ formError = <<"Please describe the problem.">>
    /\ appState = "idle"
    /\ \A i \in TaskIds : tasks[i].status = "unused"

\* the streams of the chat view on screen that have not settled
InFlight ==
    { i \in StreamIds : /\ streams[i].status \in {"sending", "streaming"}
                        /\ streams[i].mounted }

\* C28: at most one chat stream is in flight per chat view: a call of
\* handleSendMessage while isSending is true, or with an input that is empty
\* once trimmed, adds no message to the list and makes no call to the chat
\* session.
C28_OneStreamPerChatView ==
    /\ [](/\ Cardinality(InFlight) <= 1
          /\ InFlight # {} => isSending)
    /\ [][\A input \in ChatInputs :
             (/\ Trim(input) = << >> \/ isSending
              /\ handleSendMessage(input)) =>
                 /\ UNCHANGED <<messages, isSending, streams, aiCalls>>
                 /\ ~lastOp'.sent]_vars

\* a send was attempted while a reply was still streaming, and turned down
C28_Witness ==
    /\ lastOp.op = "handleSendMessage"
    /\ ~lastOp.sent
    /\ isSending
    /\ Cardinality(InFlight) = 1
    /\ \E i \in InFlight : streams[i].status = "streaming"
    /\ Len(messages) = 2

====
